---- MODULE Spec2Model ----
(***************************************************************************)
(* Library management system (Django application `myapp`): the request     *)
(* handlers of views.py and the form validation of forms.py over the       *)
(* Entity Store (User, UserProfile, Author, Category, Book).               *)
(*                                                                         *)
(* Strings are sequences of one-character strings, so that stripping and   *)
(* case folding are computed and not assumed.                              *)
(***************************************************************************)
EXTENDS Integers, Sequences, FiniteSets, TLC

\* ------------------------------------------------------------------ bounds
\* Primary keys handed out per table before creation is cut off.
MaxUsers == 2
MaxAuthors == 1
MaxCategories == 1
MaxBooks == 1
\* Largest result set and largest page parameter of the pagination runs.
MaxRows == 24
MaxPageParam == 4
\* users matched by username in a store that is searched
MaxSearchRows == 10

\* ------------------------------------------------------- program constants
PageSize == 10
UsernameMaxLength == 150
SearchLimit == 10

\* ------------------------------------------------------------------ strings
Empty == << >>

LowerChar(c) ==
    CASE c = "A" -> "a"
      [] c = "B" -> "b"
      [] c = "K" -> "k"
      [] c = "P" -> "p"
      [] OTHER -> c

\* str.lower() / the folding behind the __iexact lookup
Lower(s) == [i \in DOMAIN s |-> LowerChar(s[i])]

RECURSIVE LStrip(_)
LStrip(s) == IF s # Empty /\ Head(s) = " " THEN LStrip(Tail(s)) ELSE s

RECURSIVE RStrip(_)
RStrip(s) ==
    IF s # Empty /\ s[Len(s)] = " " THEN RStrip(SubSeq(s, 1, Len(s) - 1)) ELSE s

\* str.strip(), applied by forms.CharField (strip=True by default)
Strip(s) == RStrip(LStrip(s))

\* username__iexact
iexact(a, b) == Lower(a) = Lower(b)

\* An address is well formed when it is local@domain, both parts non-empty.
EmailWellFormed(e) ==
    \E i \in DOMAIN e :
        /\ e[i] = "@"
        /\ 1 < i /\ i < Len(e)
        /\ \A j \in DOMAIN e : e[j] = "@" => j = i

\* ------------------------------------------------------------------- state
VARIABLES
    users,          \* auth_user rows: [id, username, email, password]
    profiles,       \* UserProfile rows: [user, address, phone_number]
    nextUserId,     \* next primary key of auth_user
    authors,        \* Author rows: [id, name]
    categories,     \* Category rows: [id, name]
    books,          \* Book rows: [id, title, author, category, copies]
    nextCatalogId,  \* next primary keys: [author, category, book]
    session,        \* session -> id of the user it is logged in as (0: none)
    collation,      \* collation of the unique index on auth_user.username
    req,            \* the request being answered ("idle": none)
    resp,           \* the response to it
    inflight,       \* creation requests between validation and insert
    pager,          \* a list endpoint's result set, page parameter and page
    results         \* what a search put in its context: query, selector, users

store == <<users, profiles, authors, categories, books>>
vars == <<users, profiles, nextUserId, authors, categories, books,
          nextCatalogId, session, collation, req, resp, inflight, pager,
          results>>

Sessions == {"s1", "s2"}
Methods == {"GET", "POST"}
Anonymous == 0
NoInstance == 0
Requests == {"r1", "r2"}

\* make_password: the stored value is a hash of the raw password
make_password(raw) == <<"hash", raw>>
check_password(raw, stored) == stored = make_password(raw)

UserIds(U) == {u.id : u \in U}
UserById(U, id) == CHOOSE u \in U : u.id = id
HasProfile(P, id) == \E p \in P : p.user = id

\* request.user.is_authenticated: the session names a user that still exists
is_authenticated(s) == session[s] \in UserIds(users)

\* The handler without its test of request.user
is_self_unchecked(s, pk) == FALSE

\* request.user == user
is_self(s, pk) == session[s] = pk

\* The handler without its test of the request method
is_post_unchecked(m) == TRUE

\* request.method == 'POST': a change is applied only when the form is posted
is_post(m) == m = "POST"

\* The handler saving without regard to the result of form.is_valid()
is_valid_ignored(errs) == TRUE

\* form.is_valid(): no field reported an error
is_valid(errs) == errs = {}

\* A submitted user form, a submitted profile form
UserPost(username, email, password, password_confirm) ==
    [username |-> username, email |-> email, password |-> password,
     password_confirm |-> password_confirm]
ProfilePost(address, phone_number, profile_image) ==
    [address |-> address, phone_number |-> phone_number,
     profile_image |-> profile_image]
NoPost == UserPost(Empty, Empty, Empty, Empty)
NoProfilePost == ProfilePost(Empty, Empty, "")

\* A submitted book, category or author form (a category or author has a name only)
ItemPost(title, author, category, copies) ==
    [title |-> title, author |-> author, category |-> category, copies |-> copies]
NamePost(name) == ItemPost(name, 0, 0, 0)
NoItem == ItemPost(Empty, 0, 0, 0)

Request(h, m, s, pk, post, ppost, item, fault) ==
    [handler |-> h, method |-> m, session |-> s, pk |-> pk, post |-> post,
     ppost |-> ppost, item |-> item, fault |-> fault]
Idle == Request("idle", "GET", "s1", 0, NoPost, NoProfilePost, NoItem, "none")

Response(st, errs) == [status |-> st, errors |-> errs]
NoResponse == Response("none", {})


userVars == <<users, profiles, nextUserId>>
catalogVars == <<authors, categories, books, nextCatalogId>>
envVars == <<collation, inflight, pager, results>>

\* ------------------------------------------------------------------- forms
DuplicateUsername == "A user with that username already exists."
PasswordsMismatch == "Passwords don't match"
UsernameRequired == "username: This field is required."
UsernameTooLong == "username: Ensure this value has at most 150 characters."
EmailInvalid == "email: Enter a valid email address."
PasswordRequired == "password: This field is required."
ConfirmRequired == "password_confirm: This field is required."
ImageInvalid == "profile_image: Upload a valid image."

\* forms.CharField.to_python: the submitted value, stripped
CharField(raw) == Strip(raw)

\* The lookup with username__exact where the code has username__iexact
UsernameTaken_exact(U, username, instanceId) ==
    \E u \in U : u.username = username /\ u.id # instanceId

\* The lookup without its .exclude(id=...)
UsernameTaken_noexclude(U, username, instanceId) ==
    \E u \in U : iexact(u.username, username)

\* User.objects.filter(username__iexact=username).exclude(id=...).exists()
UsernameTaken(U, username, instanceId) ==
    \E u \in U : iexact(u.username, username) /\ u.id # instanceId

\* The username field of UserForm and SimpleRegisterForm, then clean_username.
UsernameErrors(raw, U, instanceId) ==
    LET username == CharField(raw) IN
    IF username = Empty THEN {UsernameRequired}
    ELSE IF Len(username) > UsernameMaxLength THEN {UsernameTooLong}
    ELSE IF UsernameTaken(U, username, instanceId) THEN {DuplicateUsername}
    ELSE {}

\* forms.EmailField(required=False)
EmailErrors(raw) ==
    LET email == CharField(raw) IN
    IF email = Empty \/ EmailWellFormed(email) THEN {} ELSE {EmailInvalid}

\* clean() of UserForm and of SimpleRegisterForm: the cleaned values compared
PasswordsDiffer(password, password_confirm) ==
    /\ password # Empty
    /\ password_confirm # Empty
    /\ password # password_confirm

CleanErrors(post) ==
    IF PasswordsDiffer(CharField(post.password), CharField(post.password_confirm))
    THEN {PasswordsMismatch} ELSE {}

UserFormErrors(post, U, instanceId) ==
    UsernameErrors(post.username, U, instanceId)
        \cup EmailErrors(post.email) \cup CleanErrors(post)

SimpleRegisterFormErrors(post, U) ==
    UsernameErrors(post.username, U, NoInstance)
        \cup EmailErrors(post.email)
        \cup (IF CharField(post.password) = Empty THEN {PasswordRequired} ELSE {})
        \cup (IF CharField(post.password_confirm) = Empty THEN {ConfirmRequired} ELSE {})
        \cup CleanErrors(post)

cleaned_data(post) ==
    [username |-> CharField(post.username),
     email |-> CharField(post.email),
     password |-> CharField(post.password),
     password_confirm |-> CharField(post.password_confirm)]

\* UserProfileForm (a ModelForm over UserProfile): free text, an optional image
UserProfileFormErrors(ppost) ==
    IF ppost.profile_image = "bad" THEN {ImageInvalid} ELSE {}

profile_cleaned_data(ppost) ==
    [address |-> CharField(ppost.address),
     phone_number |-> CharField(ppost.phone_number)]

\* ------------------------------------------------------------ Entity Store
\* The user tables as one value, so that a transaction can be rolled back.
UserDb == [users |-> users, profiles |-> profiles, nextUserId |-> nextUserId]

SetUserDb(db) ==
    /\ users' = db.users
    /\ profiles' = db.profiles
    /\ nextUserId' = db.nextUserId

\* The unique index on auth_user.username, under the database's collation.
UniqueViolation(U, username, selfId) ==
    \E u \in U :
        /\ u.id # selfId
        /\ IF collation = "nocase" THEN iexact(u.username, username)
                                   ELSE u.username = username

\* User.objects.create_user
create_user(db, username, email, password) ==
    [db EXCEPT
        !.users = @ \cup {[id |-> db.nextUserId, username |-> username,
                           email |-> email, password |-> make_password(password)]},
        !.nextUserId = @ + 1]

\* An insert without the lookup: a row is added whether or not one is there
get_or_create_insert(db, uid) ==
    [db EXCEPT !.profiles =
        @ \cup {[user |-> uid, address |-> Empty, phone_number |-> Empty]}]

\* UserProfile.objects.get_or_create(user=user)
get_or_create(db, uid) ==
    IF HasProfile(db.profiles, uid) THEN db
    ELSE [db EXCEPT !.profiles =
            @ \cup {[user |-> uid, address |-> Empty, phone_number |-> Empty]}]

\* profile.save() / profile_form.save()
save_profile(db, uid, address, phone_number) ==
    [db EXCEPT !.profiles =
        {p \in @ : p.user # uid}
            \cup {[user |-> uid, address |-> address, phone_number |-> phone_number]}]

\* user.save() of an existing row
save_user(db, uid, username, email, password) ==
    [db EXCEPT !.users =
        {u \in @ : u.id # uid}
            \cup {[id |-> uid, username |-> username, email |-> email,
                   password |-> password]}]

\* user.delete(): the row and, by cascade, its profile
delete_user_row(db, uid) ==
    [db EXCEPT !.users = {u \in @ : u.id # uid},
               !.profiles = {p \in @ : p.user # uid}]

\* The block without transaction.atomic(): what was written stays written
atomic_absent(before, reached, raised) == reached

\* with transaction.atomic(): an exception inside the block undoes its writes
atomic(before, reached, raised) == IF raised THEN before ELSE reached


\* ------------------------------------------------- user transactions
\* register, lines 61-67: form.save(), profile get-or-create, login
RegisterTxn(db, cd, fault) ==
    LET uid == db.nextUserId
        d1 == create_user(db, cd.username, cd.email, cd.password)
        d2 == get_or_create(d1, uid)
        integrity == fault # "create_user"
                        /\ UniqueViolation(db.users, cd.username, NoInstance)
        raised == integrity \/ fault # "none"
        reached == IF fault = "create_user" \/ integrity THEN db
                   ELSE IF fault = "get_or_create" THEN d1
                   ELSE d2
    IN [db |-> atomic(db, reached, raised),
        uid |-> uid,
        status |-> IF integrity THEN "integrity_error"
                   ELSE IF raised THEN "exception" ELSE "redirect"]

\* add_user, lines 121-137
AddUserTxn(db, cd, pcd, random, fault) ==
    LET uid == db.nextUserId
        password == IF cd.password # Empty THEN cd.password ELSE random
        d1 == create_user(db, cd.username, cd.email, password)
        d2 == get_or_create(d1, uid)
        d3 == save_profile(d2, uid, pcd.address, pcd.phone_number)
        integrity == fault # "create_user"
                        /\ UniqueViolation(db.users, cd.username, NoInstance)
        raised == integrity \/ fault # "none"
        reached == IF fault = "create_user" \/ integrity THEN db
                   ELSE IF fault = "get_or_create" THEN d1
                   ELSE IF fault = "profile_save" THEN d2
                   ELSE d3
    IN [db |-> atomic(db, reached, raised),
        uid |-> uid,
        status |-> IF integrity THEN "integrity_error"
                   ELSE IF raised THEN "exception" ELSE "redirect"]

\* edit_user, lines 200-209
\* set_password called whether or not a password was submitted
set_password_always(user, password) == make_password(password)

\* if password: user.set_password(password)
set_password(user, password) ==
    IF password # Empty THEN make_password(password) ELSE user.password

EditUserTxn(db, uid, cd, pcd, fault) ==
    LET user == UserById(db.users, uid)
        password == set_password(user, cd.password)
        d1 == save_user(db, uid, cd.username, cd.email, password)
        d2 == save_profile(d1, uid, pcd.address, pcd.phone_number)
        integrity == fault # "user_save"
                        /\ UniqueViolation(db.users, cd.username, uid)
        raised == integrity \/ fault # "none"
        reached == IF fault = "user_save" \/ integrity THEN db
                   ELSE IF fault = "profile_save" THEN d1
                   ELSE d2
    IN [db |-> atomic(db, reached, raised),
        status |-> IF integrity THEN "integrity_error"
                   ELSE IF raised THEN "exception" ELSE "redirect"]

\* ----------------------------------------------------------- handlers
\* @login_required turning an unauthenticated caller away
LoginRedirect ==
    /\ resp' = Response("redirect_login", {})
    /\ UNCHANGED <<userVars, catalogVars, session>>

\* A handler that reads the store and renders
ReadOnly(status) ==
    /\ resp' = Response(status, {})
    /\ UNCHANGED <<userVars, catalogVars, session>>

Serve(h, m, s, pk, post, ppost, fault) ==
    /\ req = Idle
    /\ req' = Request(h, m, s, pk, post, ppost, NoItem, fault)
    /\ UNCHANGED envVars

ServeItem(h, m, s, pk, item, fault) ==
    /\ req = Idle
    /\ req' = Request(h, m, s, pk, NoPost, NoProfilePost, item, fault)
    /\ UNCHANGED envVars

\* The response leaves; the next request can come in.
Respond ==
    /\ req # Idle
    /\ req' = Idle
    /\ resp' = NoResponse
    /\ UNCHANGED <<userVars, catalogVars, session, envVars>>

index(s, m) ==
    /\ Serve("index", m, s, 0, NoPost, NoProfilePost, "none")
    /\ ReadOnly(IF is_authenticated(s) THEN "redirect_home" ELSE "redirect_login")

home(s, m) ==
    /\ Serve("home", m, s, 0, NoPost, NoProfilePost, "none")
    /\ IF is_authenticated(s) THEN ReadOnly("render") ELSE LoginRedirect

\* authenticate(): the user of that name whose password checks
authenticate(username, password) ==
    {u \in users : u.username = username /\ check_password(password, u.password)}

login_view(s, m, username, password) ==
    /\ Serve("login", m, s, 0, UserPost(username, Empty, password, Empty),
             NoProfilePost, "none")
    /\ UNCHANGED <<userVars, catalogVars>>
    /\ IF is_authenticated(s)
       THEN resp' = Response("redirect_home", {}) /\ UNCHANGED session
       ELSE IF is_post(m)
       THEN LET found == authenticate(Strip(username), password) IN
            IF found # {}
            THEN /\ \E u \in found : session' = [session EXCEPT ![s] = u.id]
                 /\ resp' = Response("redirect_home", {})
            ELSE /\ resp' = Response("invalid_credentials", {})
                 /\ UNCHANGED session
       ELSE resp' = Response("render", {}) /\ UNCHANGED session

register(s, m, post, fault) ==
    /\ Serve("register", m, s, 0, post, NoProfilePost, fault)
    /\ UNCHANGED catalogVars
    /\ IF is_authenticated(s)
       THEN resp' = Response("redirect_home", {}) /\ UNCHANGED <<userVars, session>>
       ELSE IF is_post(m)
       THEN LET errs == SimpleRegisterFormErrors(post, users) IN
            IF is_valid(errs)
            THEN LET run == RegisterTxn(UserDb, cleaned_data(post), fault) IN
                 /\ nextUserId <= MaxUsers
                 /\ SetUserDb(run.db)
                 /\ IF run.status = "redirect"
                    THEN /\ session' = [session EXCEPT ![s] = run.uid]
                         /\ resp' = Response("redirect_home", {})
                    ELSE /\ resp' = Response(run.status, {})
                         /\ UNCHANGED session
            ELSE /\ resp' = Response("invalid", errs)
                 /\ UNCHANGED <<userVars, session>>
       ELSE resp' = Response("render", {}) /\ UNCHANGED <<userVars, session>>

logout_view(s, m) ==
    /\ Serve("logout", m, s, 0, NoPost, NoProfilePost, "none")
    /\ IF is_authenticated(s)
       THEN /\ session' = [session EXCEPT ![s] = Anonymous]
            /\ resp' = Response("redirect_login", {})
            /\ UNCHANGED <<userVars, catalogVars>>
       ELSE LoginRedirect

user_list(s, m) ==
    /\ Serve("user_list", m, s, 0, NoPost, NoProfilePost, "none")
    /\ IF is_authenticated(s) THEN ReadOnly("render") ELSE LoginRedirect

user_search(s, m) ==
    /\ Serve("user_search", m, s, 0, NoPost, NoProfilePost, "none")
    /\ IF is_authenticated(s) THEN ReadOnly("render") ELSE LoginRedirect

user_profile(s, m, pk) ==
    /\ Serve("user_profile", m, s, pk, NoPost, NoProfilePost, "none")
    /\ IF ~is_authenticated(s) THEN LoginRedirect
       ELSE IF pk \notin UserIds(users) THEN ReadOnly("not_found")
       ELSE /\ SetUserDb(get_or_create(UserDb, pk))
            /\ resp' = Response("render", {})
            /\ UNCHANGED <<catalogVars, session>>

add_user(s, m, post, ppost, random, fault) ==
    /\ Serve("add_user", m, s, 0, post, ppost, fault)
    /\ IF ~is_authenticated(s) THEN LoginRedirect
       ELSE IF is_post(m)
       THEN LET errs == UserFormErrors(post, users, NoInstance)
                            \cup UserProfileFormErrors(ppost) IN
            /\ UNCHANGED <<catalogVars, session>>
            /\ IF is_valid(errs)
               THEN LET run == AddUserTxn(UserDb, cleaned_data(post),
                                          profile_cleaned_data(ppost), random, fault) IN
                    /\ nextUserId <= MaxUsers
                    /\ SetUserDb(run.db)
                    /\ resp' = Response(run.status, {})
               ELSE /\ resp' = Response("invalid", errs)
                    /\ UNCHANGED userVars
       ELSE ReadOnly("render")

edit_user(s, m, pk, post, ppost, fault) ==
    /\ Serve("edit_user", m, s, pk, post, ppost, fault)
    /\ IF ~is_authenticated(s) THEN LoginRedirect
       ELSE IF pk \notin UserIds(users) THEN ReadOnly("not_found")
       ELSE LET db == get_or_create(UserDb, pk) IN
            /\ UNCHANGED <<catalogVars, session>>
            /\ IF is_post(m)
               THEN LET errs == UserFormErrors(post, users, pk)
                                    \cup UserProfileFormErrors(ppost) IN
                    IF is_valid(errs)
                    THEN LET run == EditUserTxn(db, pk, cleaned_data(post),
                                                profile_cleaned_data(ppost), fault) IN
                         /\ SetUserDb(run.db)
                         /\ resp' = Response(run.status, {})
                    ELSE /\ SetUserDb(db)
                         /\ resp' = Response("invalid", errs)
               ELSE /\ SetUserDb(db)
                    /\ resp' = Response("render", {})

delete_user(s, m, pk, fault) ==
    /\ Serve("delete_user", m, s, pk, NoPost, NoProfilePost, fault)
    /\ IF ~is_authenticated(s) THEN LoginRedirect
       ELSE IF pk \notin UserIds(users) THEN ReadOnly("not_found")
       ELSE IF is_self(s, pk) THEN ReadOnly("self_delete_rejected")
       ELSE IF is_post(m)
       THEN /\ UNCHANGED <<catalogVars, session>>
            /\ IF fault = "none"
               THEN /\ SetUserDb(delete_user_row(UserDb, pk))
                    /\ resp' = Response("redirect", {})
               ELSE /\ UNCHANGED userVars
                    /\ resp' = Response("exception", {})
       ELSE ReadOnly("render")


\* ------------------------------------------------------- catalog forms
TitleRequired == "title: This field is required."
NameRequired == "name: This field is required."
AuthorInvalid == "author: Select a valid choice."
CategoryInvalid == "category: Select a valid choice."
CopiesInvalid == "copies: Ensure this value is greater than or equal to 1."

ItemIds(T) == {x.id : x \in T}

\* BookForm: title, author and category required, copies a positive integer
BookFormErrors(item) ==
    (IF CharField(item.title) = Empty THEN {TitleRequired} ELSE {})
        \cup (IF item.author \in ItemIds(authors) THEN {} ELSE {AuthorInvalid})
        \cup (IF item.category \in ItemIds(categories) THEN {} ELSE {CategoryInvalid})
        \cup (IF item.copies >= 1 THEN {} ELSE {CopiesInvalid})

\* CategoryForm, AuthorForm: name required
NameFormErrors(item) ==
    IF CharField(item.title) = Empty THEN {NameRequired} ELSE {}

BookRow(id, item) ==
    [id |-> id, title |-> CharField(item.title), author |-> item.author,
     category |-> item.category, copies |-> item.copies]
NameRow(id, item) == [id |-> id, name |-> CharField(item.title)]

\* form.save() with an instance: the row of that key replaced
Replace(T, row) == {x \in T : x.id # row.id} \cup {row}
Without(T, id) == {x \in T : x.id # id}

\* The delete without its cascade: the books of the row are kept
BooksKept(B, id) == B

\* author.delete(), category.delete(): the books that reference the row go with it
BooksWithoutAuthor(B, id) == {b \in B : b.author # id}
BooksWithoutCategory(B, id) == {b \in B : b.category # id}

\* The form is shown again with its errors; nothing is saved.
Invalid(errs) ==
    /\ resp' = Response("invalid", errs)
    /\ UNCHANGED <<userVars, catalogVars, session>>

\* ------------------------------------------------------ catalog handlers
book_list(s, m) ==
    /\ ServeItem("book_list", m, s, 0, NoItem, "none")
    /\ IF is_authenticated(s) THEN ReadOnly("render") ELSE LoginRedirect

add_book(s, m, item) ==
    /\ ServeItem("add_book", m, s, 0, item, "none")
    /\ IF ~is_authenticated(s) THEN LoginRedirect
       ELSE IF is_post(m)
       THEN IF is_valid(BookFormErrors(item))
            THEN /\ nextCatalogId.book <= MaxBooks
                 /\ books' = books \cup {BookRow(nextCatalogId.book, item)}
                 /\ nextCatalogId' = [nextCatalogId EXCEPT !.book = @ + 1]
                 /\ resp' = Response("redirect", {})
                 /\ UNCHANGED <<userVars, authors, categories, session>>
            ELSE Invalid(BookFormErrors(item))
       ELSE ReadOnly("render")

edit_book(s, m, pk, item) ==
    /\ ServeItem("edit_book", m, s, pk, item, "none")
    /\ IF ~is_authenticated(s) THEN LoginRedirect
       ELSE IF pk \notin ItemIds(books) THEN ReadOnly("not_found")
       ELSE IF is_post(m)
       THEN IF is_valid(BookFormErrors(item))
            THEN /\ books' = Replace(books, BookRow(pk, item))
                 /\ resp' = Response("redirect", {})
                 /\ UNCHANGED <<userVars, authors, categories, nextCatalogId, session>>
            ELSE Invalid(BookFormErrors(item))
       ELSE ReadOnly("render")

delete_book(s, m, pk, fault) ==
    /\ ServeItem("delete_book", m, s, pk, NoItem, fault)
    /\ IF ~is_authenticated(s) THEN LoginRedirect
       ELSE IF pk \notin ItemIds(books) THEN ReadOnly("not_found")
       ELSE IF is_post(m)
       THEN IF fault = "none"
            THEN /\ books' = Without(books, pk)
                 /\ resp' = Response("redirect", {})
                 /\ UNCHANGED <<userVars, authors, categories, nextCatalogId, session>>
            ELSE ReadOnly("exception")
       ELSE ReadOnly("render")

\* No @login_required: any caller may read a book.
book_detail(s, m, pk) ==
    /\ ServeItem("book_detail", m, s, pk, NoItem, "none")
    /\ IF pk \notin ItemIds(books) THEN ReadOnly("not_found") ELSE ReadOnly("render")

book_search(s, m) ==
    /\ ServeItem("book_search", m, s, 0, NoItem, "none")
    /\ IF is_authenticated(s) THEN ReadOnly("render") ELSE LoginRedirect

category_list(s, m) ==
    /\ ServeItem("category_list", m, s, 0, NoItem, "none")
    /\ IF is_authenticated(s) THEN ReadOnly("render") ELSE LoginRedirect

add_category(s, m, item) ==
    /\ ServeItem("add_category", m, s, 0, item, "none")
    /\ IF ~is_authenticated(s) THEN LoginRedirect
       ELSE IF is_post(m)
       THEN IF is_valid(NameFormErrors(item))
            THEN /\ nextCatalogId.category <= MaxCategories
                 /\ categories' = categories \cup {NameRow(nextCatalogId.category, item)}
                 /\ nextCatalogId' = [nextCatalogId EXCEPT !.category = @ + 1]
                 /\ resp' = Response("redirect", {})
                 /\ UNCHANGED <<userVars, authors, books, session>>
            ELSE Invalid(NameFormErrors(item))
       ELSE ReadOnly("render")

edit_category(s, m, pk, item) ==
    /\ ServeItem("edit_category", m, s, pk, item, "none")
    /\ IF ~is_authenticated(s) THEN LoginRedirect
       ELSE IF pk \notin ItemIds(categories) THEN ReadOnly("not_found")
       ELSE IF is_post(m)
       THEN IF is_valid(NameFormErrors(item))
            THEN /\ categories' = Replace(categories, NameRow(pk, item))
                 /\ resp' = Response("redirect", {})
                 /\ UNCHANGED <<userVars, authors, books, nextCatalogId, session>>
            ELSE Invalid(NameFormErrors(item))
       ELSE ReadOnly("render")

delete_category(s, m, pk, fault) ==
    /\ ServeItem("delete_category", m, s, pk, NoItem, fault)
    /\ IF ~is_authenticated(s) THEN LoginRedirect
       ELSE IF pk \notin ItemIds(categories) THEN ReadOnly("not_found")
       ELSE IF is_post(m)
       THEN IF fault = "none"
            THEN /\ categories' = Without(categories, pk)
                 /\ books' = BooksWithoutCategory(books, pk)
                 /\ resp' = Response("redirect", {})
                 /\ UNCHANGED <<userVars, authors, nextCatalogId, session>>
            ELSE ReadOnly("exception")
       ELSE ReadOnly("render")

search(s, m) ==
    /\ ServeItem("search", m, s, 0, NoItem, "none")
    /\ IF is_authenticated(s) THEN ReadOnly("render") ELSE LoginRedirect

author_list(s, m) ==
    /\ ServeItem("author_list", m, s, 0, NoItem, "none")
    /\ IF is_authenticated(s) THEN ReadOnly("render") ELSE LoginRedirect

add_author(s, m, item) ==
    /\ ServeItem("add_author", m, s, 0, item, "none")
    /\ IF ~is_authenticated(s) THEN LoginRedirect
       ELSE IF is_post(m)
       THEN IF is_valid(NameFormErrors(item))
            THEN /\ nextCatalogId.author <= MaxAuthors
                 /\ authors' = authors \cup {NameRow(nextCatalogId.author, item)}
                 /\ nextCatalogId' = [nextCatalogId EXCEPT !.author = @ + 1]
                 /\ resp' = Response("redirect", {})
                 /\ UNCHANGED <<userVars, categories, books, session>>
            ELSE Invalid(NameFormErrors(item))
       ELSE ReadOnly("render")

edit_author(s, m, pk, item) ==
    /\ ServeItem("edit_author", m, s, pk, item, "none")
    /\ IF ~is_authenticated(s) THEN LoginRedirect
       ELSE IF pk \notin ItemIds(authors) THEN ReadOnly("not_found")
       ELSE IF is_post(m)
       THEN IF is_valid(NameFormErrors(item))
            THEN /\ authors' = Replace(authors, NameRow(pk, item))
                 /\ resp' = Response("redirect", {})
                 /\ UNCHANGED <<userVars, categories, books, nextCatalogId, session>>
            ELSE Invalid(NameFormErrors(item))
       ELSE ReadOnly("render")

delete_author(s, m, pk, fault) ==
    /\ ServeItem("delete_author", m, s, pk, NoItem, fault)
    /\ IF ~is_authenticated(s) THEN LoginRedirect
       ELSE IF pk \notin ItemIds(authors) THEN ReadOnly("not_found")
       ELSE IF is_post(m)
       THEN IF fault = "none"
            THEN /\ authors' = Without(authors, pk)
                 /\ books' = BooksWithoutAuthor(books, pk)
                 /\ resp' = Response("redirect", {})
                 /\ UNCHANGED <<userVars, categories, nextCatalogId, session>>
            ELSE ReadOnly("exception")
       ELSE ReadOnly("render")

\* The dashboard without @login_required
dashboard_open(s, m) ==
    /\ ServeItem("dashboard", m, s, 0, NoItem, "none")
    /\ ReadOnly("render")

dashboard(s, m) ==
    /\ ServeItem("dashboard", m, s, 0, NoItem, "none")
    /\ IF is_authenticated(s) THEN ReadOnly("render") ELSE LoginRedirect

\* ------------------------------------------------------------------ inputs
Usernames == {Empty, <<"a">>, <<"A">>, <<"b">>}
Passwords == {Empty, <<"p">>, <<"p", " ">>, <<"q">>}
RandomPasswords == {<<"r">>}
UserKeys == 1 .. MaxUsers + 1

\* The sessions a request can come from: the server answers one request at a time.
Callers == IF req = Idle THEN Sessions ELSE {}
\* The whole-site runs follow one browser session through every endpoint.
Caller == IF req = Idle THEN {"s1"} ELSE {}

PostsFor(m, posts, none) == IF m = "POST" THEN posts ELSE {none}
FaultsFor(m, faults) == IF m = "POST" THEN faults ELSE {"none"}

\* Password and confirmation as submitted: both blank, equal, different, equal
\* but for a trailing blank, a confirmation alone.
PasswordPairs ==
    {<<Empty, Empty>>, <<<<"p">>, <<"p">>>>, <<<<"p">>, <<"q">>>>,
     <<<<"p", " ">>, <<"p">>>>, <<Empty, <<"q">>>>}

\* Forms of the user-management runs: every username with every such pair.
UserPosts ==
    {UserPost(u, Empty, pc[1], pc[2]) : u \in Usernames, pc \in PasswordPairs}
        \cup {UserPost(<<"b">>, <<"e", "@", "x">>, Empty, <<"q">>)}
ProfilePosts == {NoProfilePost, ProfilePost(<<"x">>, Empty, ""), ProfilePost(Empty, Empty, "bad")}

InFlight(kind, post, stage, created, status) ==
    [kind |-> kind, post |-> post, stage |-> stage, created |-> created,
     status |-> status]
NotSent == InFlight("none", NoPost, "none", FALSE, "none")

\* The page parameter of the query string: absent, not a number, or an integer.
PageMissing == [kind |-> "missing", n |-> 0]
PageText == [kind |-> "text", n |-> 0]
PageInt(n) == [kind |-> "int", n |-> n]
NoPage == [count |-> 0, param |-> PageMissing, number |-> 0, rows |-> {},
           status |-> "none"]
NoResults ==
    [handler |-> "none", query |-> Empty, kind |-> "none", listed |-> FALSE,
     users |-> {}]

\* The account made by `createsuperuser`: a user row without a profile row.
Superuser ==
    [id |-> 1, username |-> <<"b">>, email |-> Empty,
     password |-> make_password(<<"p">>)]

InitCommon ==
    /\ profiles = {}
    /\ authors = {} /\ categories = {} /\ books = {}
    /\ nextCatalogId = [author |-> 1, category |-> 1, book |-> 1]
    /\ req = Idle /\ resp = NoResponse
    /\ inflight = [r \in Requests |-> NotSent]
    /\ pager = NoPage
    /\ results = NoResults

Init ==
    /\ InitCommon
    /\ users \in {{}, {Superuser}}
    /\ nextUserId = Cardinality(users) + 1
    /\ session = [s \in Sessions |-> Anonymous]
    /\ collation = "binary"

NextUsers ==
    \/ Respond
    \/ \E s \in Callers, m \in Methods : index(s, m)
    \/ \E s \in Callers, m \in Methods : home(s, m)
    \/ \E s \in Callers, m \in Methods :
         \E u \in PostsFor(m, Usernames, Empty), p \in PostsFor(m, Passwords, Empty) :
            login_view(s, m, u, p)
    \/ \E s \in Callers, m \in Methods :
         \E post \in PostsFor(m, UserPosts, NoPost),
            fault \in FaultsFor(m, {"none", "create_user", "get_or_create", "login"}) :
            register(s, m, post, fault)
    \/ \E s \in Callers, m \in Methods : logout_view(s, m)
    \/ \E s \in Callers, m \in Methods : user_list(s, m)
    \/ \E s \in Callers, m \in Methods : user_search(s, m)
    \/ \E s \in Callers, m \in Methods, pk \in UserKeys : user_profile(s, m, pk)
    \/ \E s \in Callers, m \in Methods :
         \E post \in PostsFor(m, UserPosts, NoPost),
            ppost \in PostsFor(m, ProfilePosts, NoProfilePost),
            random \in RandomPasswords,
            fault \in FaultsFor(m, {"none", "create_user", "get_or_create", "profile_save"}) :
            add_user(s, m, post, ppost, random, fault)
    \/ \E s \in Callers, m \in Methods, pk \in UserKeys :
         \E post \in PostsFor(m, UserPosts, NoPost),
            ppost \in PostsFor(m, ProfilePosts, NoProfilePost),
            fault \in FaultsFor(m, {"none", "user_save", "profile_save"}) :
            edit_user(s, m, pk, post, ppost, fault)
    \/ \E s \in Callers, m \in Methods, pk \in UserKeys :
         \E fault \in FaultsFor(m, {"none", "delete"}) : delete_user(s, m, pk, fault)

SpecUsers == Init /\ [][NextUsers]_vars


\* Forms of the whole-site runs: a good form, a blank username, a malformed
\* address, passwords that differ.
SiteUserPosts ==
    {UserPost(<<"a">>, Empty, <<"p">>, <<"p">>),
     UserPost(Empty, Empty, <<"p">>, <<"p">>),
     UserPost(<<"a">>, <<"e">>, <<"p">>, <<"p">>),
     UserPost(<<"a">>, Empty, <<"p">>, <<"q">>)}
SiteProfilePosts == {NoProfilePost, ProfilePost(Empty, Empty, "bad")}
SiteLogins == {<<"a">>, <<"b">>}
AuthorKeys == 1 .. MaxAuthors + 1
CategoryKeys == 1 .. MaxCategories + 1
BookKeys == 1 .. MaxBooks + 1
\* A book under every author and category key, one without a title, one without copies
BookPosts ==
    {ItemPost(<<"t">>, a, c, 1) : a \in AuthorKeys, c \in CategoryKeys}
        \cup {ItemPost(Empty, 1, 1, 1), ItemPost(<<"t">>, 1, 1, 0)}
NamePosts == {NamePost(Empty), NamePost(<<"n">>)}
DeleteFaults == {"none", "delete"}

Next ==
    \/ Respond
    \/ \E s \in Caller, m \in Methods : index(s, m)
    \/ \E s \in Caller, m \in Methods : home(s, m)
    \/ \E s \in Caller, m \in Methods :
         \E u \in PostsFor(m, SiteLogins, Empty) : login_view(s, m, u, <<"p">>)
    \/ \E s \in Caller, m \in Methods :
         \E post \in PostsFor(m, SiteUserPosts, NoPost),
            fault \in FaultsFor(m, {"none", "get_or_create"}) :
            register(s, m, post, fault)
    \/ \E s \in Caller, m \in Methods : logout_view(s, m)
    \/ \E s \in Caller, m \in Methods : user_list(s, m)
    \/ \E s \in Caller, m \in Methods : user_search(s, m)
    \/ \E s \in Caller, m \in Methods, pk \in UserKeys : user_profile(s, m, pk)
    \/ \E s \in Caller, m \in Methods :
         \E post \in PostsFor(m, SiteUserPosts, NoPost),
            ppost \in PostsFor(m, SiteProfilePosts, NoProfilePost),
            random \in RandomPasswords,
            fault \in FaultsFor(m, {"none", "profile_save"}) :
            add_user(s, m, post, ppost, random, fault)
    \/ \E s \in Caller, m \in Methods, pk \in UserKeys :
         \E post \in PostsFor(m, SiteUserPosts, NoPost),
            ppost \in PostsFor(m, SiteProfilePosts, NoProfilePost),
            fault \in FaultsFor(m, {"none", "profile_save"}) :
            edit_user(s, m, pk, post, ppost, fault)
    \/ \E s \in Caller, m \in Methods, pk \in UserKeys :
         \E fault \in FaultsFor(m, DeleteFaults) : delete_user(s, m, pk, fault)
    \/ \E s \in Caller, m \in Methods : book_list(s, m)
    \/ \E s \in Caller, m \in Methods :
         \E item \in PostsFor(m, BookPosts, NoItem) : add_book(s, m, item)
    \/ \E s \in Caller, m \in Methods, pk \in BookKeys :
         \E item \in PostsFor(m, BookPosts, NoItem) : edit_book(s, m, pk, item)
    \/ \E s \in Caller, m \in Methods, pk \in BookKeys :
         \E fault \in FaultsFor(m, DeleteFaults) : delete_book(s, m, pk, fault)
    \/ \E s \in Caller, m \in Methods, pk \in BookKeys : book_detail(s, m, pk)
    \/ \E s \in Caller, m \in Methods : book_search(s, m)
    \/ \E s \in Caller, m \in Methods : category_list(s, m)
    \/ \E s \in Caller, m \in Methods :
         \E item \in PostsFor(m, NamePosts, NoItem) : add_category(s, m, item)
    \/ \E s \in Caller, m \in Methods, pk \in CategoryKeys :
         \E item \in PostsFor(m, NamePosts, NoItem) : edit_category(s, m, pk, item)
    \/ \E s \in Caller, m \in Methods, pk \in CategoryKeys :
         \E fault \in FaultsFor(m, DeleteFaults) : delete_category(s, m, pk, fault)
    \/ \E s \in Caller, m \in Methods : search(s, m)
    \/ \E s \in Caller, m \in Methods : author_list(s, m)
    \/ \E s \in Caller, m \in Methods :
         \E item \in PostsFor(m, NamePosts, NoItem) : add_author(s, m, item)
    \/ \E s \in Caller, m \in Methods, pk \in AuthorKeys :
         \E item \in PostsFor(m, NamePosts, NoItem) : edit_author(s, m, pk, item)
    \/ \E s \in Caller, m \in Methods, pk \in AuthorKeys :
         \E fault \in FaultsFor(m, DeleteFaults) : delete_author(s, m, pk, fault)
    \/ \E s \in Caller, m \in Methods : dashboard(s, m)

Spec == Init /\ [][Next]_vars


\* ----------------------------------------------------- concurrent creation
\* Two creation requests in flight at once: each validates its form against
\* the store as it is then, and inserts later, in a transaction of its own.
RacePosts ==
    {UserPost(u, Empty, <<"p">>, <<"p">>) : u \in {<<"a">>, <<"A">>, <<"b">>}}
RaceKinds == {"add_user", "register"}
RaceSession(kind) == IF kind = "add_user" THEN "s1" ELSE "s2"

\* The handler up to form.is_valid(): lines 114-119 of add_user, 53-59 of register
RaceValidate(r, kind, post) ==
    /\ inflight[r] = NotSent
    /\ IF kind = "add_user" THEN is_authenticated(RaceSession(kind))
                            ELSE ~is_authenticated(RaceSession(kind))
    /\ LET errs == IF kind = "add_user"
                   THEN UserFormErrors(post, users, NoInstance)
                   ELSE SimpleRegisterFormErrors(post, users) IN
       inflight' = [inflight EXCEPT ![r] =
                        IF is_valid(errs) THEN InFlight(kind, post, "validated", FALSE, "none")
                        ELSE InFlight(kind, post, "done", FALSE, "invalid")]
    /\ UNCHANGED <<userVars, catalogVars, session, collation, req, resp, pager,
                   results>>

\* The rest of the handler: the transaction block and the response
RaceInsert(r) ==
    /\ inflight[r].stage = "validated"
    /\ LET kind == inflight[r].kind
           cd == cleaned_data(inflight[r].post)
           run == IF kind = "add_user"
                  THEN AddUserTxn(UserDb, cd, profile_cleaned_data(NoProfilePost),
                                  <<"r">>, "none")
                  ELSE RegisterTxn(UserDb, cd, "none") IN
       /\ SetUserDb(run.db)
       /\ inflight' = [inflight EXCEPT ![r] =
                          InFlight(kind, inflight[r].post, "done",
                                   run.status = "redirect", run.status)]
       /\ session' = IF kind = "register" /\ run.status = "redirect"
                     THEN [session EXCEPT ![RaceSession(kind)] = run.uid]
                     ELSE session
    /\ UNCHANGED <<catalogVars, collation, req, resp, pager, results>>

\* An administrator is logged in on s1; s2 is a visitor. Either collation of the
\* unique index on usernames can be the database's.
InitRace ==
    /\ InitCommon
    /\ users = {Superuser}
    /\ nextUserId = 2
    /\ session = [s \in Sessions |-> IF s = "s1" THEN 1 ELSE Anonymous]
    /\ collation \in {"binary", "nocase"}

NextRace ==
    \/ \E r \in Requests, kind \in RaceKinds, post \in RacePosts :
          RaceValidate(r, kind, post)
    \/ \E r \in Requests : RaceInsert(r)

SpecRace == InitRace /\ [][NextRace]_vars

\* -------------------------------------------------------------- pagination
PageParams == {PageMissing, PageText} \cup {PageInt(n) : n \in -2 .. MaxPageParam}

\* Paginator.num_pages: an empty list still has a first page
num_pages(count) ==
    IF count = 0 THEN 1 ELSE (count + PageSize - 1) \div PageSize

\* Paginator.get_page: what is not an integer gives page 1, an integer out of
\* range gives the last page
get_page_number(count, param) ==
    IF param.kind # "int" THEN 1
    ELSE IF param.n < 1 THEN num_pages(count)
    ELSE IF param.n > num_pages(count) THEN num_pages(count)
    ELSE param.n

\* Paginator.page: the rows of that page, as positions in the ordered result set
page_rows(count, number) ==
    LET bottom == (number - 1) * PageSize
        top == IF bottom + PageSize >= count THEN count ELSE bottom + PageSize
    IN bottom + 1 .. top

\* paginator = Paginator(qs, 10); paginator.get_page(request.GET.get('page'))
Paginate(count, param) ==
    /\ pager' = [count |-> count, param |-> param,
                 number |-> get_page_number(count, param),
                 rows |-> page_rows(count, get_page_number(count, param)),
                 status |-> "render"]
    /\ UNCHANGED <<userVars, catalogVars, session, collation, req, resp, inflight,
                   results>>

InitPage ==
    /\ InitCommon
    /\ users = {} /\ nextUserId = 1
    /\ session = [s \in Sessions |-> Anonymous]
    /\ collation = "binary"

NextPage == \E count \in 0 .. MaxRows, param \in PageParams : Paginate(count, param)

SpecPage == InitPage /\ [][NextPage]_vars


\* ------------------------------------------------------------------ search
\* field__icontains=query: the folded query occurs in the folded field
icontains(field, query) ==
    \E i \in 1 .. Len(field) - Len(query) + 1 :
        SubSeq(Lower(field), i, i + Len(query) - 1) = Lower(query)

\* The join on userprofile: the profile fields of a user, none without a profile
ProfileRows(uid) == {p \in profiles : p.user = uid}
Addresses(uid) == {p.address : p \in ProfileRows(uid)}
PhoneNumbers(uid) == {p.phone_number : p \in ProfileRows(uid)}

\* user_search: the queryset after the filter chosen by `filter`
user_search_filter(query, filter_type) ==
    IF query = Empty THEN UserIds(users)
    ELSE {u.id : u \in
            {u \in users :
                CASE filter_type = "username" -> icontains(u.username, query)
                  [] filter_type = "email" -> icontains(u.email, query)
                  [] filter_type = "address" ->
                        \E a \in Addresses(u.id) : icontains(a, query)
                  [] OTHER ->
                        \/ icontains(u.username, query)
                        \/ icontains(u.email, query)
                        \/ \E a \in Addresses(u.id) : icontains(a, query)
                        \/ \E n \in PhoneNumbers(u.id) :
                              icontains(n, query)}}

\* search: the users matched by the global search (username, email, address)
search_users_filter(query) ==
    {u.id : u \in
        {u \in users :
            \/ icontains(u.username, query)
            \/ icontains(u.email, query)
            \/ \E a \in Addresses(u.id) : icontains(a, query)}}

\* queryset[:10] of a queryset without order_by: any ten of its rows, or all
\* of them when there are no more than ten
Slices(S) ==
    IF Cardinality(S) <= SearchLimit THEN {S}
    ELSE {T \in SUBSET S : Cardinality(T) = SearchLimit}

SearchResult(handler, query, kind, listed, ids) ==
    [handler |-> handler, query |-> query, kind |-> kind, listed |-> listed,
     users |-> ids]

\* search, the part that fills context['users']
search_users(s, raw, search_type) ==
    /\ is_authenticated(s)
    /\ LET query == Strip(raw) IN
       IF query # Empty /\ search_type \in {"all", "users"}
       THEN \E ids \in Slices(search_users_filter(query)) :
               results' = SearchResult("search", query, search_type, TRUE, ids)
       ELSE results' = SearchResult("search", query, search_type, FALSE, {})
    /\ UNCHANGED <<userVars, catalogVars, session, collation, req, resp,
                   inflight, pager>>

\* user_search, up to the paginator
user_search_query(s, raw, filter_type) ==
    /\ is_authenticated(s)
    /\ results' = SearchResult("user_search", Strip(raw), filter_type, TRUE,
                               user_search_filter(Strip(raw), filter_type))
    /\ UNCHANGED <<userVars, catalogVars, session, collation, req, resp,
                   inflight, pager>>

\* One character per row, to tell the usernames apart
Tags == <<"a", "b", "c", "d", "e", "f", "g", "h", "i", "j", "l", "m", "n",
          "o", "p", "q", "r", "s", "t", "u">>

\* The rows of a store to search: an administrator whom the query does not
\* match, then users the query matches by username, then at most one each
\* matched by email only, by address only, by phone number only, and one
\* without a profile.
SearchKinds == <<"email", "address", "phone", "noprofile">>
SearchRowKinds(nName, flags) ==
    <<"admin">> \o [i \in 1 .. nName |-> "username"]
        \o SelectSeq(SearchKinds, LAMBDA k : k \in flags)

SearchUser(i, kind) ==
    [id |-> i,
     username |-> <<(IF kind = "username" THEN "K" ELSE "n"), Tags[i]>>,
     email |-> IF kind = "email" THEN <<"k", "@", "x">> ELSE Empty,
     password |-> make_password(<<"p">>)]

SearchProfile(i, kind) ==
    [user |-> i,
     address |-> IF kind = "address" THEN <<"K", "s">> ELSE Empty,
     phone_number |-> IF kind = "phone" THEN <<"5", "k">> ELSE Empty]

SearchQueries == {Empty, <<" ">>, <<"k">>, <<" ", "K">>, <<"z">>}
SearchTypes == {"all", "users", "books", "authors", "categories"}
SearchFilters == {"all", "username", "email", "address"}

InitSearch ==
    /\ authors = {} /\ categories = {} /\ books = {}
    /\ nextCatalogId = [author |-> 1, category |-> 1, book |-> 1]
    /\ req = Idle /\ resp = NoResponse
    /\ inflight = [r \in Requests |-> NotSent]
    /\ pager = NoPage
    /\ results = NoResults
    /\ collation = "binary"
    /\ session = [s \in Sessions |-> IF s = "s1" THEN 1 ELSE Anonymous]
    /\ \E nName \in 0 .. MaxSearchRows, flags \in SUBSET {"email", "address", "phone", "noprofile"} :
          LET kinds == SearchRowKinds(nName, flags) IN
          /\ users = {SearchUser(i, kinds[i]) : i \in DOMAIN kinds}
          /\ profiles = {SearchProfile(i, kinds[i]) :
                            i \in {j \in DOMAIN kinds : kinds[j] # "noprofile"}}
          /\ nextUserId = Len(kinds) + 1

NextSearch ==
    \/ \E raw \in SearchQueries, t \in SearchTypes : search_users("s1", raw, t)
    \/ \E raw \in SearchQueries, f \in SearchFilters : user_search_query("s1", raw, f)

SpecSearch == InitSearch /\ [][NextSearch]_vars


\* ================================================================== claims
\* The request now answered, in a step that answers one.
Answering(handlers) == req = Idle /\ req'.handler \in handlers
LoggedIn(s) == \E u \in users : u.id = session[s]
SameIgnoringCase(a, b) ==
    /\ Len(a) = Len(b)
    /\ \A i \in DOMAIN a : LowerChar(a[i]) = LowerChar(b[i])
Stripped(raw) == Strip(raw)
UserTablesUnchanged == users' = users /\ profiles' = profiles
StoreUnchanged ==
    /\ UserTablesUnchanged
    /\ authors' = authors /\ categories' = categories /\ books' = books

\* The creation form is read: add_user by a logged-in caller, register by a visitor.
CreationRead ==
    /\ Answering({"add_user", "register"})
    /\ req'.method = "POST"
    /\ (req'.handler = "add_user") = LoggedIn(req'.session)

NoCaseDuplicates ==
    \A u, v \in users : SameIgnoringCase(u.username, v.username) => u = v

\* C1: once a user exists, a creation request (add_user or register) whose
\* username equals that user's ignoring case fails with the error "A user with
\* that username already exists." and creates no user; and after any run of
\* requests no two stored users have usernames equal ignoring case.
C1_CaseInsensitiveUnique ==
    [][/\ NoCaseDuplicates'
       /\ (CreationRead
            /\ \E u \in users :
                  SameIgnoringCase(u.username, Stripped(req'.post.username)))
          => /\ resp'.status = "invalid"
             /\ DuplicateUsername \in resp'.errors
             /\ UserTablesUnchanged]_vars

\* A creation request was refused for a username that differs from a stored one
\* by letter case only.
C1_Witness ==
    /\ req.handler \in {"add_user", "register"}
    /\ req.method = "POST"
    /\ DuplicateUsername \in resp.errors
    /\ \E u \in users :
          /\ u.username # Stripped(req.post.username)
          /\ SameIgnoringCase(u.username, Stripped(req.post.username))


\* The two requests in flight, once both are answered
BothAnswered == \A r \in Requests : inflight[r].stage = "done"
Created == {r \in Requests : inflight[r].created}

\* C2: when two creation requests (add_user and/or register) whose usernames are
\* equal ignoring case, and held by no stored user, run concurrently with their
\* validations and inserts interleaved in any order, exactly one of them
\* creates a user and the other creates none.
C2_ExactlyOneCreated ==
    (/\ BothAnswered
     /\ SameIgnoringCase(Stripped(inflight["r1"].post.username),
                         Stripped(inflight["r2"].post.username))
     /\ ~SameIgnoringCase(Stripped(inflight["r1"].post.username),
                          Superuser.username))
    => /\ Cardinality(Created) = 1
       /\ Cardinality(users) = Cardinality({Superuser}) + 1

\* The rows a step adds to a table
NewUsers == users' \ users
NewProfiles == profiles' \ profiles

\* C3: creating a User and its UserProfile is atomic. A request of add_user or
\* register either leaves the user tables as they were, or adds exactly one
\* User together with exactly its UserProfile; when a step fails after the User
\* row was inserted, the tables are as before the request.
C3_AtomicCreation ==
    [][Answering({"add_user", "register"})
        => /\ \/ UserTablesUnchanged
              \/ \E u \in NewUsers :
                    /\ users' = users \cup {u}
                    /\ \E p \in NewProfiles :
                          p.user = u.id /\ profiles' = profiles \cup {p}
           /\ resp'.status \in {"exception", "integrity_error"}
                => UserTablesUnchanged]_vars

\* add_user failed at profile.save(), after the User row and its profile row
\* were written inside the block.
C3_Witness ==
    /\ req.handler = "add_user"
    /\ req.fault = "profile_save"
    /\ resp.status = "exception"

\* C4: a delete_user request, GET or POST, whose target is the caller's own user
\* is turned away with a notice, and the user and its profile stay; no request
\* of a logged-in session removes that session's own user.
C4_NoSelfDeletion ==
    [][/\ (Answering({"delete_user"}) /\ LoggedIn(req'.session)
              /\ req'.pk = session[req'.session])
          => /\ resp'.status = "self_delete_rejected"
             /\ UserTablesUnchanged
             /\ session' = session
       /\ (req = Idle /\ req' # Idle /\ LoggedIn(req'.session))
          => \E u \in users' : u.id = session[req'.session]]_vars

\* A POST to delete one's own account was turned away.
C4_Witness ==
    /\ req.handler = "delete_user"
    /\ req.method = "POST"
    /\ req.pk = session[req.session]
    /\ resp.status = "self_delete_rejected"

\* C5: on a paginated listing (page size 10) a page parameter greater than the
\* number of pages returns the last page's contents, a page parameter of 0 or a
\* negative number returns page 1, and no page parameter produces an error.
C5_NearestPage ==
    pager.status # "none"
    => /\ pager.status = "render"
       /\ (pager.param.kind = "int" /\ pager.param.n > num_pages(pager.count))
          => pager.rows = page_rows(pager.count, num_pages(pager.count))
       /\ (pager.param.kind = "int" /\ pager.param.n <= 0)
          => /\ pager.number = 1
             /\ pager.rows = page_rows(pager.count, 1)


\* C6: a registration POST whose password and password_confirm are both
\* supplied and differ yields a validation error (when the form is read, that
\* is for a caller not logged in, and no step is made to fail), creates no User
\* and no UserProfile and establishes no session.
C6_MismatchRejected ==
    [][(Answering({"register"}) /\ req'.method = "POST"
            /\ req'.post.password # Empty
            /\ req'.post.password_confirm # Empty
            /\ req'.post.password # req'.post.password_confirm)
        => /\ UserTablesUnchanged
           /\ session' = session
           /\ (~LoggedIn(req'.session) /\ req'.fault = "none")
                => resp'.status = "invalid"]_vars

\* The user being edited, before and after the request
Target == CHOOSE u \in users : u.id = req'.pk
TargetAfter == CHOOSE u \in users' : u.id = req'.pk
EditRead ==
    /\ Answering({"edit_user"})
    /\ req'.method = "POST"
    /\ LoggedIn(req'.session)
    /\ \E u \in users : u.id = req'.pk

\* C9: on edit_user the uniqueness check leaves out the user being edited.
\* Submitting that user's own username in any letter case is not a duplicate,
\* and is saved when nothing else is wrong with the form and no step fails;
\* submitting a username equal ignoring case to another user's is refused with
\* the duplicate-username error and the edited user's row stays as it was.
C9_SelfExclusion ==
    [][EditRead
        => LET name == Stripped(req'.post.username) IN
           /\ (\E u \in users :
                  u.id # req'.pk /\ SameIgnoringCase(u.username, name))
              => /\ resp'.status = "invalid"
                 /\ DuplicateUsername \in resp'.errors
                 /\ TargetAfter = Target
           /\ SameIgnoringCase(Target.username, name)
              => /\ DuplicateUsername \notin resp'.errors
                 /\ (resp'.errors = {} /\ req'.fault = "none")
                       => /\ resp'.status = "redirect"
                          /\ TargetAfter.username = name]_vars

\* An edit was refused because the submitted name belongs, up to case, to another user.
C9_Witness ==
    /\ req.handler = "edit_user"
    /\ DuplicateUsername \in resp.errors
    /\ \E u \in users :
          /\ u.id # req.pk
          /\ u.username # Stripped(req.post.username)
          /\ SameIgnoringCase(u.username, Stripped(req.post.username))


DeleteHandlers == {"delete_user", "delete_book", "delete_category", "delete_author"}
Removed(T) == {x.id : x \in T} \ {x.id : x \in T'}
RemovedProfiles == {p.user : p \in profiles} \ {p.user : p \in profiles'}

\* C7: a GET to delete_user, delete_book, delete_category or delete_author
\* shows the confirmation page and leaves the store as it was. A row leaves a
\* table only in a POST to a delete endpoint by a logged-in session: the row
\* whose key the request names, and with it the rows that depend on it (the
\* profile of that user, the books of that author or category).
C7_DeleteOnlyOnPost ==
    [][/\ (Answering(DeleteHandlers) /\ req'.method = "GET")
          => /\ StoreUnchanged
             /\ resp'.status \in {"render", "redirect_login", "not_found",
                                  "self_delete_rejected"}
       /\ (Removed(users) \cup RemovedProfiles \cup Removed(authors)
              \cup Removed(categories) \cup Removed(books)) # {}
          => /\ Answering(DeleteHandlers)
             /\ req'.method = "POST"
             /\ LoggedIn(req'.session)
             /\ Removed(users) \subseteq
                  (IF req'.handler = "delete_user" THEN {req'.pk} ELSE {})
             /\ RemovedProfiles \subseteq
                  (IF req'.handler = "delete_user" THEN {req'.pk} ELSE {})
             /\ Removed(authors) \subseteq
                  (IF req'.handler = "delete_author" THEN {req'.pk} ELSE {})
             /\ Removed(categories) \subseteq
                  (IF req'.handler = "delete_category" THEN {req'.pk} ELSE {})
             /\ \A b \in books : b.id \in Removed(books) =>
                  \/ req'.handler = "delete_book" /\ b.id = req'.pk
                  \/ req'.handler = "delete_author" /\ b.author = req'.pk
                  \/ req'.handler = "delete_category" /\ b.category = req'.pk]_vars

\* A logged-in caller asked with GET to delete an existing book and was shown
\* the confirmation page.
C7_Witness ==
    /\ req.handler = "delete_book"
    /\ req.method = "GET"
    /\ resp.status = "render"
    /\ \E b \in books : b.id = req.pk

FormHandlers ==
    {"add_user", "edit_user", "add_book", "edit_book", "add_category",
     "edit_category", "add_author", "edit_author", "register"}

\* The errors the forms of the request report, read from the submitted values:
\* what is required, what must be well formed, what must exist, what must match.
SubmittedErrors ==
    LET r == req'
        name == Stripped(r.post.username)
        self == IF r.handler = "edit_user" THEN r.pk ELSE 0
        userForm ==
            \/ name = Empty
            \/ \E u \in users : u.id # self /\ SameIgnoringCase(u.username, name)
            \/ Stripped(r.post.email) # Empty /\ ~EmailWellFormed(Stripped(r.post.email))
            \/ /\ Stripped(r.post.password) # Empty
               /\ Stripped(r.post.password_confirm) # Empty
               /\ Stripped(r.post.password) # Stripped(r.post.password_confirm)
        nameForm == Stripped(r.item.title) = Empty
    IN CASE r.handler \in {"add_user", "edit_user"} ->
                userForm \/ r.ppost.profile_image = "bad"
         [] r.handler = "register" ->
                \/ userForm
                \/ Stripped(r.post.password) = Empty
                \/ Stripped(r.post.password_confirm) = Empty
         [] r.handler \in {"add_book", "edit_book"} ->
                \/ nameForm
                \/ r.item.author \notin {a.id : a \in authors}
                \/ r.item.category \notin {c.id : c \in categories}
                \/ r.item.copies < 1
         [] OTHER -> nameForm

\* The form of the request is read: the caller may use the endpoint and the
\* row to edit exists.
FormRead ==
    /\ Answering(FormHandlers)
    /\ req'.method = "POST"
    /\ (req'.handler = "register") = ~LoggedIn(req'.session)
    /\ req'.handler = "edit_user" => \E u \in users : u.id = req'.pk
    /\ req'.handler = "edit_book" => \E b \in books : b.id = req'.pk
    /\ req'.handler = "edit_category" => \E c \in categories : c.id = req'.pk
    /\ req'.handler = "edit_author" => \E a \in authors : a.id = req'.pk

BlankProfile(uid) == [user |-> uid, address |-> Empty, phone_number |-> Empty]

\* C8 as stated: a POST to an add or edit endpoint whose form validation fails
\* leaves the Entity Store equal to what it was, for every prior state.
C8_InvalidNotApplied ==
    [][(FormRead /\ SubmittedErrors)
        => resp'.status = "invalid" /\ StoreUnchanged]_vars

\* C8, amended: such a POST is answered with the form's errors and changes no
\* row of the store; the one difference it can leave is the blank UserProfile
\* that edit_user inserts, before it validates, for a target user without one.
C8_InvalidNotAppliedButProfile ==
    [][(FormRead /\ SubmittedErrors)
        => /\ resp'.status = "invalid"
           /\ users' = users
           /\ authors' = authors /\ categories' = categories /\ books' = books
           /\ \/ profiles' = profiles
              \/ /\ req'.handler = "edit_user"
                 /\ \A p \in profiles : p.user # req'.pk
                 /\ profiles' = profiles \cup {BlankProfile(req'.pk)}]_vars

\* An edit of a user was refused by validation; the target has its blank profile.
C8_Witness ==
    /\ req.handler = "edit_user"
    /\ req.method = "POST"
    /\ resp.status = "invalid"
    /\ BlankProfile(req.pk) \in profiles

PublicHandlers == {"index", "login", "register", "book_detail"}

\* C10: every endpoint but index, login, register and the book detail view
\* needs a logged-in session: a request, GET or POST, by a caller who is not
\* logged in is redirected to login and leaves the store and the session alone.
C10_LoginRequired ==
    [][(req = Idle /\ req' # Idle /\ req'.handler \notin PublicHandlers
            /\ ~LoggedIn(req'.session))
        => /\ resp'.status = "redirect_login"
           /\ StoreUnchanged
           /\ session' = session]_vars

\* A visitor's POST to delete an author was redirected to login.
C10_Witness ==
    /\ req.handler = "delete_author"
    /\ req.method = "POST"
    /\ ~(\E u \in users : u.id = session[req.session])
    /\ resp.status = "redirect_login"

\* Every stored book names an author and a category that are stored.
RefsValid ==
    \A b \in books :
        /\ b.author \in {a.id : a \in authors}
        /\ b.category \in {c.id : c \in categories}

\* A logged-in caller's POST deletes an existing author or category.
ParentDeleted(handler, T) ==
    /\ Answering({handler})
    /\ req'.method = "POST"
    /\ req'.fault = "none"
    /\ LoggedIn(req'.session)
    /\ \E x \in T : x.id = req'.pk

\* C11: after any sequence of add, edit and delete requests on books, authors
\* and categories every stored book names an author and a category that are
\* both stored; a POST that deletes an author or a category removes that row
\* and with it exactly the books that name it, the same way for both.
C11_ReferentialIntegrity ==
    [][/\ RefsValid'
       /\ ParentDeleted("delete_author", authors)
          => /\ authors' = {a \in authors : a.id # req'.pk}
             /\ books' = {b \in books : b.author # req'.pk}
             /\ categories' = categories
       /\ ParentDeleted("delete_category", categories)
          => /\ categories' = {c \in categories : c.id # req'.pk}
             /\ books' = {b \in books : b.category # req'.pk}
             /\ authors' = authors]_vars

\* An author was deleted by POST while a category is still stored; the one book
\* that had been added is no longer stored.
C11_Witness ==
    /\ req.handler = "delete_author"
    /\ req.method = "POST"
    /\ resp.status = "redirect"
    /\ nextCatalogId.book > 1
    /\ categories # {}
    /\ authors = {}
    /\ books = {}

\* Every profile has its user, and no user has two.
ProfilesSound ==
    /\ \A p \in profiles : \E u \in users : u.id = p.user
    /\ \A p, q \in profiles : p.user = q.user => p = q

\* A logged-in caller opens the profile page of an existing user.
ProfileOpened ==
    /\ Answering({"user_profile"})
    /\ LoggedIn(req'.session)
    /\ \E u \in users : u.id = req'.pk

\* C12: after any sequence of register, add_user, user_profile, edit_user and
\* delete_user requests every stored profile belongs to a stored user and no
\* user has more than one profile. Opening the profile page of a user who has
\* a profile inserts nothing and leaves that profile as it is; for a user
\* without one it inserts the blank profile and nothing else. A POST that
\* deletes a user deletes the user's profile with it.
C12_ProfileIntegrity ==
    [][/\ ProfilesSound'
       /\ (ProfileOpened /\ \E p \in profiles : p.user = req'.pk)
          => UserTablesUnchanged
       /\ (ProfileOpened /\ ~\E p \in profiles : p.user = req'.pk)
          => /\ users' = users
             /\ profiles' = profiles \cup {BlankProfile(req'.pk)}
       /\ (Answering({"delete_user"}) /\ req'.pk \in Removed(users))
          => /\ \A p \in profiles' : p.user # req'.pk
             /\ \A p \in profiles : p.user # req'.pk => p \in profiles']_vars

\* The profile page of a user whose profile holds an address was opened: the
\* profile found is the one stored before, not a new blank one.
C12_Witness ==
    /\ req.handler = "user_profile"
    /\ resp.status = "render"
    /\ \E p \in profiles : p.user = req.pk /\ p.address # Empty

\* The users whose username, email, profile address or profile phone number
\* holds the query, letter case ignored: the match of user_search with filter
\* "all".
MatchedOnAllFields(query) ==
    {u.id : u \in
        {u \in users :
            \/ icontains(u.username, query)
            \/ icontains(u.email, query)
            \/ \E p \in profiles :
                  /\ p.user = u.id
                  /\ icontains(p.address, query) \/ icontains(p.phone_number, query)}}

\* C13: for every non-empty query and type selector "all" or "users" the users
\* the global search returns are ten (all, when there are no more than ten) of
\* the users matched on username, email, profile address or profile phone
\* number, as user_search with filter "all" matches them; so a user matching
\* on the phone number alone is among them.
C13_GlobalSearchUsers ==
    (/\ results.handler = "search"
     /\ results.query # Empty
     /\ results.kind \in {"all", "users"})
    => /\ results.listed
       /\ MatchedOnAllFields(results.query) = user_search_filter(results.query, "all")
       /\ results.users \subseteq MatchedOnAllFields(results.query)
       /\ Cardinality(results.users) =
            (IF Cardinality(MatchedOnAllFields(results.query)) <= 10
             THEN Cardinality(MatchedOnAllFields(results.query)) ELSE 10)

\* The profile row of the user a request names, before and after
TargetProfiles == {p \in profiles : p.user = req'.pk}
TargetProfilesAfter == {p \in profiles' : p.user = req'.pk}

\* C14: an edit_user POST that succeeds with a blank password leaves the
\* user's stored password as it was, whatever password_confirm holds; the
\* stored password changes only when a non-empty password is submitted, and is
\* then that password's hash. Username, email and the profile fields are
\* saved together: all of them when the request succeeds, none when a step of
\* the transaction fails.
C14_BlankPasswordKept ==
    [][/\ (EditRead /\ resp'.status = "redirect")
          => /\ Stripped(req'.post.password) = Empty
                => TargetAfter.password = Target.password
             /\ TargetAfter.password # Target.password
                => /\ req'.post.password # Empty
                   /\ TargetAfter.password
                        = make_password(Stripped(req'.post.password))
             /\ TargetAfter.username = Stripped(req'.post.username)
             /\ TargetAfter.email = Stripped(req'.post.email)
             /\ TargetProfilesAfter =
                  {[user |-> req'.pk,
                    address |-> Stripped(req'.ppost.address),
                    phone_number |-> Stripped(req'.ppost.phone_number)]}
             /\ \A u \in users : u.id # req'.pk => u \in users'
       /\ (EditRead /\ resp'.status \in {"exception", "integrity_error"})
          => /\ users' = users
             /\ TargetProfilesAfter =
                  (IF TargetProfiles = {} THEN {BlankProfile(req'.pk)}
                   ELSE TargetProfiles)]_vars

\* An edit with a blank password and a confirmation that is not blank was
\* saved: the user has the submitted email and still the password set before.
C14_Witness ==
    /\ req.handler = "edit_user"
    /\ req.method = "POST"
    /\ resp.status = "redirect"
    /\ req.post.password = Empty
    /\ req.post.password_confirm # Empty
    /\ req.post.email # Empty
    /\ \E u \in users :
          /\ u.id = req.pk
          /\ u.email = Stripped(req.post.email)
          /\ u.password = make_password(<<"p">>)

====
